---- MODULE Spec2Model ----
(***************************************************************************)
(* The query-and-answer scripts of the Bedrock knowledge-base project:     *)
(*   scripts/test_bedrock_utils.py   (test_query and its driver main)      *)
(*   scripts/query_knowledge_base.py (retrieve_and_generate + generation)  *)
(*   scripts/query_kb_retrieve.py    (retrieve + result formatting)        *)
(*                                                                         *)
(* A Python str is a sequence of tokens: a token is one character of a     *)
(* variable text or one literal chunk of an f-string; a line break is the  *)
(* token NL.  A Python dict is a function on the keys it holds, so that    *)
(* d.get(k, default) is Get(d, k, default).                                *)
(***************************************************************************)
EXTENDS Integers, Sequences, FiniteSets, TLC

\* ------------------------------------------------------------------ bounds
MaxPassages   == 2      \* longest retrievalResults list the service returns
MaxContentLen == 202    \* longest passage text
MaxLines      == 2      \* input lines read by one interactive session
MaxPolls      == 3      \* longest wait for an update, in sleep periods
MaxRecords    == 2      \* longest records list a statement answers with

\* ------------------------------------------------------- program constants
PreviewBudget == 200

NL == "\n"

Ellipsis == <<".", ".", ".">>

Digits == <<"0", "1", "2", "3", "4", "5", "6", "7", "8", "9">>

Min(a, b) == IF a < b THEN a ELSE b

\* ------------------------------------------------------------ Python idioms
\* str(i) / f"{i}" of a non-negative int
RECURSIVE Str(_)
Str(i) == IF i < 10 THEN <<Digits[i + 1]>>
          ELSE Str(i \div 10) \o <<Digits[(i % 10) + 1]>>

\* f"{score:.2f}" of a score held in hundredths
Fmt2f(score) == Str(score \div 100) \o <<".">> \o
                <<Digits[((score \div 10) % 10) + 1], Digits[(score % 10) + 1]>>

\* s[:n]
Take(s, n) == SubSeq(s, 1, Min(n, Len(s)))

\* sep.join(list)
RECURSIVE Join(_, _)
Join(sep, list) ==
    IF list = <<>> THEN <<>>
    ELSE IF Len(list) = 1 THEN list[1]
    ELSE list[1] \o sep \o Join(sep, Tail(list))

\* d.get(k, default)
Get(d, k, default) == IF k \in DOMAIN d THEN d[k] ELSE default

\* {}
EmptyDict == [k \in {} |-> <<>>]

Whitespace == {" ", "\t", NL}

\* s.strip()
RECURSIVE LStrip(_)
LStrip(s) == IF s # <<>> /\ Head(s) \in Whitespace THEN LStrip(Tail(s)) ELSE s

RECURSIVE RStrip(_)
RStrip(s) == IF s # <<>> /\ s[Len(s)] \in Whitespace
             THEN RStrip(SubSeq(s, 1, Len(s) - 1)) ELSE s

Strip(s) == RStrip(LStrip(s))

\* s.lower(), on the letters the inputs use
LowerChar(c) ==
    CASE c = "E" -> "e" [] c = "X" -> "x" [] c = "I" -> "i" [] c = "T" -> "t"
      [] c = "Q" -> "q" [] c = "U" -> "u" [] c = "C" -> "c" [] c = "L" -> "l"
      [] c = "A" -> "a" [] c = "D" -> "d" [] c = "N" -> "n"
      [] OTHER -> c

Lower(s) == [i \in 1..Len(s) |-> LowerChar(s[i])]

\* ------------------------------------------------- the service's passages
Alphabet == <<"a", "b", "c">>

\* a passage text of n characters; k makes texts of different passages differ
MkText(n, k) == [i \in 1..n |-> Alphabet[((i + k) % 3) + 1]]

ContentLens == <<1, PreviewBudget, PreviewBudget + 1, MaxContentLen>>

\* retrievalResults entries as the retrieve API returns them: content.text
\* always there, location / score / metadata entries optional
Passage(k) ==
    LET text == MkText(ContentLens[k], k)
    IN CASE k = 1 -> [content  |-> [text |-> text],
                      location |-> [s3Location |-> [uri |-> <<"s3://kb/doc1.pdf">>]],
                      score    |-> 87,
                      metadata |-> [source |-> <<"doc1.pdf">>, page_number |-> <<"7">>]]
         [] k = 2 -> [content  |-> [text |-> text]]
         [] k = 3 -> [content  |-> [text |-> text],
                      location |-> EmptyDict,
                      score    |-> 5,
                      metadata |-> [page_number |-> <<"1", "2">>]]
         [] OTHER -> [content  |-> [text |-> text],
                      location |-> [s3Location |-> EmptyDict],
                      score    |-> 100,
                      metadata |-> [source |-> <<"doc4.pdf">>]]

Passages == {Passage(k) : k \in 1..Len(ContentLens)}

RECURSIVE SeqsUpTo(_, _)
SeqsUpTo(S, n) ==
    IF n = 0 THEN {<<>>}
    ELSE LET shorter == SeqsUpTo(S, n - 1)
         IN shorter \cup {Append(s, e) : s \in {t \in shorter : Len(t) = n - 1}, e \in S}

\* what a retrieval call can return
PassageSeqs == SeqsUpTo(Passages, MaxPassages)

\* -------------------------------------------------------------- printing
\* print(s): the text and a line break, appended to standard output
py_print(s) == s \o <<NL>>

\* a service call as recorded in calls: the request, and the error when the
\* call raised one
Called(request, o) ==
    IF "error" \in DOMAIN o THEN request @@ [error |-> o.error] ELSE request

\* except Exception as e: hasattr(e, 'response')
hasattr_response(e) == "response" \in DOMAIN e

\* the exceptions an external call can raise: a client error carrying the
\* service's error response, and a plain error without one
Errors == {[msg |-> <<"AccessDeniedException">>, response |-> <<"{'Error': {'Code': 'AccessDenied'}}">>],
           [msg |-> <<"EndpointConnectionError">>]}

\* ------------------------------------- scripts/query_kb_retrieve.py
\* the outcome of bedrock_agent_runtime.retrieve(...)
RetrieveOutcomes ==
    {[ok |-> TRUE, response |-> [retrievalResults |-> ps]] : ps \in PassageSeqs}
    \cup {[ok |-> TRUE, response |-> EmptyDict]}
    \cup {[ok |-> FALSE, error |-> e] : e \in Errors}

\* a retrieval adapter whose except clause re-raises
kbr_query_knowledge_base_reraising(r) ==
    IF r.ok
    THEN [raised |-> FALSE, ret |-> Get(r.response, "retrievalResults", <<>>),
          printed |-> <<>>]
    ELSE [raised |-> TRUE, error |-> r.error,
          printed |-> py_print(<<"Error querying knowledge base: ">> \o r.error.msg)]

\* query_knowledge_base of query_kb_retrieve.py, given the outcome r of the
\* retrieve call: what it returns, whether it raises, what it prints
kbr_query_knowledge_base(r) ==
    IF r.ok
    THEN [raised |-> FALSE, ret |-> Get(r.response, "retrievalResults", <<>>),
          printed |-> <<>>]
    ELSE [raised |-> FALSE, ret |-> <<>>,
          printed |-> py_print(<<"Error querying knowledge base: ">> \o r.error.msg)
                      \o (IF hasattr_response(r.error)
                          THEN py_print(<<"Error details: ">> \o r.error.response)
                          ELSE <<>>)]

\* preview = content[:200] + '...' if len(content) > 200 else content
results_preview(content) ==
    IF Len(content) > PreviewBudget
    THEN Take(content, PreviewBudget) \o Ellipsis
    ELSE content

\* the three strings format_results appends for the i-th result
results_entry(i, result) ==
    LET content == Get(Get(result, "content", EmptyDict), "text", <<>>)
        source  == Get(Get(Get(result, "location", EmptyDict), "s3Location", EmptyDict),
                       "uri", <<"Unknown source">>)
        score   == Get(result, "score", 0)
        preview == results_preview(content)
    IN << <<NL, "Result ">> \o Str(i) \o <<" (Relevance: ">> \o Fmt2f(score) \o <<"):">>,
          <<"Source: ">> \o source,
          <<"Content: ">> \o preview >>

format_results(results) ==
    IF results = <<>>
    THEN <<"No results found.">>
    ELSE LET formatted == << <<"=== Search Results ===">> >> \o
                          Join(<<>>, [i \in 1..Len(results) |-> results_entry(i, results[i])])
         IN Join(<<NL>>, formatted)

\* ------------------------------------- scripts/query_knowledge_base.py
\* Content: {content[:200]}...
references_preview(content) == Take(content, PreviewBudget) \o Ellipsis

\* a formatter that numbers the references from 0
reference_entry_from_zero(i, result) ==
    LET metadata == Get(result, "metadata", EmptyDict)
        content  == Get(Get(result, "content", EmptyDict), "text", <<"No content">>)
    IN <<NL, "--- Reference ">> \o Str(i - 1) \o <<" ---", NL>>
       \o <<"Source: ">> \o Get(metadata, "source", <<"Unknown">>) \o <<NL>>
       \o <<"Page: ">> \o Get(metadata, "page_number", <<"N/A">>) \o <<NL>>
       \o <<"Content: ">> \o references_preview(content)

\* the reference string of the i-th result
reference_entry(i, result) ==
    LET metadata == Get(result, "metadata", EmptyDict)
        content  == Get(Get(result, "content", EmptyDict), "text", <<"No content">>)
    IN <<NL, "--- Reference ">> \o Str(i) \o <<" ---", NL>>
       \o <<"Source: ">> \o Get(metadata, "source", <<"Unknown">>) \o <<NL>>
       \o <<"Page: ">> \o Get(metadata, "page_number", <<"N/A">>) \o <<NL>>
       \o <<"Content: ">> \o references_preview(content)

format_references(retrieval_results) ==
    IF retrieval_results = <<>>
    THEN <<"No references found.">>
    ELSE Join(<<NL>>, [i \in 1..Len(retrieval_results) |->
                          reference_entry(i, retrieval_results[i])])

\* a context that holds the 200-character preview of each passage
context_entry_truncating(i, result) ==
    <<"Source ">> \o Str(i + 1) \o <<":", NL>> \o Take(result["content"]["text"], PreviewBudget)

\* f"Source {i+1}:\n{result['content']['text']}", i the 0-based position
context_entry(i, result) ==
    <<"Source ">> \o Str(i + 1) \o <<":", NL>> \o result["content"]["text"]

\* context = "\n\n".join([... for i, result in enumerate(knowledge_base_results)])
generate_context(knowledge_base_results) ==
    Join(<<NL, NL>>, [j \in 1..Len(knowledge_base_results) |->
                         context_entry(j - 1, knowledge_base_results[j])])

full_prompt(context, prompt) ==
    <<"Use the following pieces of context to answer the question at the end. ", NL,
      "If you don't know the answer, just say that you don't know, don't try to make up an answer.",
      NL, NL>> \o context \o <<NL, NL, "Question: ">> \o prompt \o <<NL, "Helpful Answer:">>

\* 'claude' in model_id.lower(): sub occurs in s
Contains(s, sub) ==
    \E i \in 1..(Len(s) - Len(sub) + 1) : SubSeq(s, i, i + Len(sub) - 1) = sub

claude == <<"c", "l", "a", "u", "d", "e">>

titan == <<"t", "i", "t", "a", "n">>

\* --model-id values: the default, the titan model of the help text, a model
\* of neither family
ModelIds ==
    {<<"a", "n", "t", "h", "r", "o", "p", "i", "c", ".">> \o claude \o <<"-", "v", "2">>,
     <<"a", "m", "a", "z", "o", "n", ".">> \o titan \o <<"-", "t", "e", "x", "t">>,
     <<"a", "i", "2", "1", ".", "j", "2">>}

\* the outcome of the diagnostic calls of query_knowledge_base, for a
\* knowledge base with one data source and one ingestion job: the step of
\* the first try block that fails and the step of the second that fails
DiagOutcomes ==
    {[b1 |-> x, b2 |-> y, error |-> [msg |-> <<"ThrottlingException">>]] :
        x \in {"ok", "client", "list_knowledge_bases"},
        y \in {"ok", "get_knowledge_base", "list_data_sources",
               "get_data_source", "list_ingestion_jobs"}}

Block2Calls == <<"get_knowledge_base", "list_data_sources",
                 "get_data_source", "list_ingestion_jobs">>

\* the service calls the diagnostic part makes (lines 38-88); with kb_client
\* unbound the second block fails with an UnboundLocalError before any call
diag_calls(d) ==
    (IF d.b1 = "client" THEN <<>>
     ELSE IF d.b1 = "ok" THEN << [api |-> "list_knowledge_bases"] >>
     ELSE << Called([api |-> "list_knowledge_bases"], d) >>)
    \o (IF d.b1 = "client" THEN <<>>
        ELSE IF d.b2 = "ok" THEN [i \in 1..4 |-> [api |-> Block2Calls[i]]]
        ELSE LET n == CHOOSE i \in 1..4 : Block2Calls[i] = d.b2
             IN [i \in 1..n |-> IF i = n THEN Called([api |-> Block2Calls[i]], d)
                                          ELSE [api |-> Block2Calls[i]]])

diag_printed(d) ==
    (IF d.b1 # "ok"
     THEN py_print(<<"Warning: Could not list knowledge bases: ">> \o d.error.msg)
     ELSE <<>>)
    \o (IF d.b1 = "client" \/ d.b2 # "ok"
        THEN py_print(<<"Warning: Could not get knowledge base details: ">> \o
                      (IF d.b1 = "client" THEN <<"cannot access local variable 'kb_client' where it is not associated with a value">>
                       ELSE d.error.msg))
        ELSE <<>>)

\* the outcome of bedrock_agent_runtime.retrieve_and_generate(...)
RagOutcomes ==
    {[ok |-> TRUE, response |-> [output |-> <<"answer">>, retrievalResults |-> ps]] :
        ps \in PassageSeqs}
    \cup {[ok |-> TRUE, response |-> [output |-> <<"answer">>]]}
    \cup {[ok |-> FALSE, error |-> e] : e \in Errors}

\* a query_knowledge_base whose except clause re-raises
qkb_query_knowledge_base_reraising(max_results, d, r) ==
    LET rag == Called([api |-> "retrieve_and_generate", numberOfResults |-> max_results], r)
    IN IF r.ok
       THEN [raised |-> FALSE, ret |-> r.response,
             calls |-> diag_calls(d) \o <<rag>>,
             printed |-> diag_printed(d)]
       ELSE [raised |-> TRUE, error |-> r.error,
             calls |-> diag_calls(d) \o <<rag>>,
             printed |-> diag_printed(d)
                         \o py_print(<<"Error Message: ">> \o r.error.msg)]

\* query_knowledge_base of query_knowledge_base.py, given the outcome d of
\* the diagnostic calls and the outcome r of retrieve_and_generate
qkb_query_knowledge_base(max_results, d, r) ==
    LET rag == Called([api |-> "retrieve_and_generate", numberOfResults |-> max_results], r)
    IN IF r.ok
       THEN [raised |-> FALSE, ret |-> r.response,
             calls |-> diag_calls(d) \o <<rag>>,
             printed |-> diag_printed(d)]
       ELSE [raised |-> FALSE, ret |-> [retrievalResults |-> <<>>],
             calls |-> diag_calls(d) \o <<rag>>,
             printed |-> diag_printed(d)
                         \o py_print(<<"Error Message: ">> \o r.error.msg)
                         \o (IF hasattr_response(r.error)
                             THEN py_print(<<"=== AWS Error Response ===">>)
                                  \o py_print(r.error.response)
                             ELSE <<>>)]

Sentinel == <<"No response generated">>

\* response bodies the model can answer with
Bodies == {[completion |-> <<"Answer.", " ">>], EmptyDict,
           [results |-> << [outputText |-> <<"Answer.">>] >>],
           [results |-> <<>>], [results |-> << EmptyDict >>]}

\* the outcome of the generation call: the stage that fails, or the body read
GenOutcomes ==
    {[stage |-> "client", error |-> [msg |-> <<"NoRegionError">>]],
     [stage |-> "read", error |-> [msg |-> <<"JSONDecodeError">>]]}
    \cup {[stage |-> "invoke", error |-> e] : e \in Errors}
    \cup {[stage |-> "ok", body |-> b] : b \in Bodies}

\* the branch that prepares the request body (lines 166-180): claude, or the
\* generic format of every other model
request_family(model_id) ==
    IF Contains(Lower(model_id), claude) THEN "claude" ELSE "generic"

\* the branch that extracts the generated text (lines 194-199)
parse_family(model_id) ==
    IF Contains(Lower(model_id), claude) THEN "claude"
    ELSE IF Contains(Lower(model_id), titan) THEN "titan"
    ELSE "generic"

\* str(response_body)
str_body(b) == <<"{">> \o Join(<<", ">>, [i \in 1..Cardinality(DOMAIN b) |-> <<"...">>]) \o <<"}">>

\* the request body generate_response builds (lines 166-180); temperature and
\* top_p in tenths
request_body(model_id, prompt) ==
    IF request_family(model_id) = "claude"
    THEN [prompt |-> <<NL, NL, "Human: ">> \o prompt \o <<NL, NL, "Assistant:">>,
          max_tokens_to_sample |-> 1000, temperature |-> 5, top_p |-> 9]
    ELSE [prompt |-> prompt, max_tokens |-> 1000, temperature |-> 5, top_p |-> 9]

\* the text generate_response extracts from a response body (lines 194-199);
\* [0] of an empty list raises IndexError
parse_body(model_id, b) ==
    IF parse_family(model_id) = "claude"
    THEN [raised |-> FALSE, ret |-> Get(b, "completion", Sentinel)]
    ELSE IF parse_family(model_id) = "titan"
    THEN LET rs == Get(b, "results", << EmptyDict >>)
         IN IF rs = <<>>
            THEN [raised |-> TRUE, error |-> [msg |-> <<"list index out of range">>]]
            ELSE [raised |-> FALSE, ret |-> Get(rs[1], "outputText", Sentinel)]
    ELSE [raised |-> FALSE, ret |-> str_body(b)]

\* a generate_response whose except clause returns the sentinel instead of
\* re-raising
generate_response_swallowing(model_id, prompt, knowledge_base_results, g) ==
    LET ctx  == generate_context(knowledge_base_results)
        body == request_body(model_id, full_prompt(ctx, prompt))
        call == [api |-> "invoke_model", modelId |-> model_id, body |-> body]
        made == IF g.stage = "client" THEN <<>>
                ELSE IF g.stage = "invoke" THEN << Called(call, g) >>
                ELSE <<call>>
        swallowed(e) == [raised |-> FALSE, ret |-> Sentinel, context |-> ctx, calls |-> made,
                         printed |-> py_print(<<"Error generating response: ">> \o e.msg)]
    IN IF g.stage # "ok" THEN swallowed(g.error)
       ELSE LET parsed == parse_body(model_id, g.body)
            IN IF parsed.raised THEN swallowed(parsed.error)
               ELSE [raised |-> FALSE, ret |-> parsed.ret, context |-> ctx,
                     calls |-> made, printed |-> <<>>]

\* generate_response of query_knowledge_base.py, given the outcome g of the
\* generation call: the except clause prints and re-raises
generate_response(model_id, prompt, knowledge_base_results, g) ==
    LET ctx  == generate_context(knowledge_base_results)
        body == request_body(model_id, full_prompt(ctx, prompt))
        call == [api |-> "invoke_model", modelId |-> model_id, body |-> body]
        made == IF g.stage = "client" THEN <<>>
                ELSE IF g.stage = "invoke" THEN << Called(call, g) >>
                ELSE <<call>>
        fail(e) == [raised |-> TRUE, error |-> e, context |-> ctx, calls |-> made,
                    printed |-> py_print(<<"Error generating response: ">> \o e.msg)]
    IN IF g.stage # "ok" THEN fail(g.error)
       ELSE LET parsed == parse_body(model_id, g.body)
            IN IF parsed.raised THEN fail(parsed.error)
               ELSE [raised |-> FALSE, ret |-> parsed.ret, context |-> ctx,
                     calls |-> made, printed |-> <<>>]

\* ------------------------------------- scripts/test_bedrock_utils.py
test_queries ==
    << <<"What are the specifications of the DT1000 dump truck?">>,
       <<"What is the maximum lifting capacity of the MC750 crane?">>,
       <<"Tell me about the features of the BD850 bulldozer.">> >>

\* the outcome of the classification call valid_prompt makes
ValidateOutcomes ==
    {[ok |-> TRUE, answer |-> a] : a \in {"yes", "no"}}
    \cup {[ok |-> FALSE, error |-> e] : e \in Errors}

\* what valid_prompt does when its call fails
ValidatePolicies == {"fail_closed", "propagate"}

\* bedrock_utils.valid_prompt: the model's yes/no as a boolean; on a failed
\* call False (fail closed) or the error raised (propagate)
valid_prompt(v, policy) ==
    IF v.ok THEN [raised |-> FALSE, ret |-> (v.answer = "yes"), printed |-> <<>>]
    ELSE IF policy = "fail_closed"
    THEN [raised |-> FALSE, ret |-> FALSE,
          printed |-> py_print(<<"Error validating prompt: ">> \o v.error.msg)]
    ELSE [raised |-> TRUE, error |-> v.error, printed |-> <<>>]

\* bedrock_utils.query_knowledge_base: the passages of the service's
\* response in the service's order; on a failed call the error reported and
\* the empty sequence returned
utils_query_knowledge_base(r) ==
    IF r.ok
    THEN [raised |-> FALSE, ret |-> Get(r.response, "retrievalResults", <<>>),
          printed |-> <<>>]
    ELSE [raised |-> FALSE, ret |-> <<>>,
          printed |-> py_print(<<"Error querying knowledge base: ">> \o r.error.msg)]

\* the outcome of the generation call bedrock_utils.generate_response makes
UtilsGenOutcomes ==
    {[ok |-> TRUE, text |-> <<"Answer.">>], [ok |-> TRUE, text |-> Sentinel]}
    \cup {[ok |-> FALSE, error |-> e] : e \in Errors}

\* bedrock_utils.generate_response: the generated text, or the failure of
\* the call raised to the caller
utils_generate_response(g) ==
    IF g.ok THEN [raised |-> FALSE, ret |-> g.text]
    ELSE [raised |-> TRUE, error |-> g.error]

\* a test_query that never takes the early return of an invalid prompt
tq_rejected_never(valid) == FALSE

\* if not is_valid: ... return
tq_rejected(valid) == ~valid

\* if not results: ... return
tq_no_results(rs) == rs = <<>>

\* preview = content[:200] + '...' if len(content) > 200 else content
tq_preview(content) ==
    IF Len(content) > PreviewBudget
    THEN Take(content, PreviewBudget) \o Ellipsis
    ELSE content

\* what test_query prints for the i-th result
tq_result_lines(i, result) ==
    LET content == Get(Get(result, "content", EmptyDict), "text", <<>>)
        source  == Get(Get(Get(result, "location", EmptyDict), "s3Location", EmptyDict),
                       "uri", <<"Unknown source">>)
        score   == Get(result, "score", 0)
        preview == tq_preview(content)
    IN py_print(<<NL, "=== Result ">> \o Str(i) \o <<" (Relevance: ">> \o Fmt2f(score) \o <<") ===">>)
       \o py_print(<<"Source: ">> \o source)
       \o py_print(<<"Content: ">> \o preview)

\* the display of the retrieval results
tq_display(rs) ==
    py_print(<<NL, "=== RETRIEVAL RESULTS ===">>)
    \o Join(<<>>, [i \in 1..Len(rs) |-> tq_result_lines(i, rs[i])])

\* context = "\n\n".join([r.get('content', {}).get('text', '') for r in results])
tq_context(rs) ==
    Join(<<NL, NL>>, [i \in 1..Len(rs) |->
                         Get(Get(rs[i], "content", EmptyDict), "text", <<>>)])

tq_prompt(ctx, q) ==
    <<"You are a helpful assistant that provides information about heavy machinery.", NL,
      "    ", NL,
      "    Here is some relevant information from the knowledge base:", NL, "    ">>
    \o ctx \o
    <<NL, "    ", NL,
      "    Based on this information, please answer the following question:", NL, "    ">>
    \o q \o
    <<NL, "    ", NL,
      "    If the information is not sufficient to answer the question, please say so.", NL,
      "    ">>

ValidationModel == <<"anthropic.claude-3-sonnet-20240229-v1:0">>

\* ------------------------------------------------------------- the state
VARIABLES
    script,         \* the script that runs
    args,           \* its parsed command line
    phase,          \* "fixed" | "interactive" | "single": who called the pipeline
    pc,             \* the position of the script
    idx,            \* test_bedrock_utils main: the next test query
    nRead,          \* input lines read so far
    query,          \* the query being answered
    is_valid,       \* test_query: "unset" | "True" | "False"
    steps,          \* the pipeline steps entered for this query, in order
    calls,          \* the service calls made for this query, in order
    results,        \* the passages retrieval handed to the caller
    context,        \* the context block assembled for generation
    response_text,  \* the answer generate_response returned
    out,            \* result and error lines printed for this query
    outcome,        \* "RUNNING" | "REJECTED" | "NO_RESULTS" | "DONE" | "ERROR" | "INTERRUPTED"
    failed          \* the steps whose external call failed

qvars == <<query, is_valid, steps, calls, results, context, response_text, out,
           outcome, failed>>

vars == <<script, args, phase, pc, idx, nRead, query, is_valid, steps, calls, results,
          context, response_text, out, outcome, failed>>

Scripts == {"test_bedrock_utils", "query_knowledge_base", "query_kb_retrieve"}

CliQuery == <<"D", "T", "1", "?">>

\* argparse results: --query absent, empty or given
ArgsOf(s) ==
    IF s = "test_bedrock_utils" THEN {EmptyDict}
    ELSE IF s = "query_knowledge_base"
    THEN {[model_id |-> m, max_results |-> 3] : m \in ModelIds}
         \cup {[model_id |-> m, max_results |-> 3, query |-> q] :
                  m \in ModelIds, q \in {<<>>, CliQuery}}
    ELSE {[max_results |-> 3], [max_results |-> 3, query |-> <<>>],
          [max_results |-> 3, query |-> CliQuery]}

\* what input() can return
InputLines ==
    {<<"e", "x", "i", "t">>, <<" ", "Q", "u", "i", "t", " ">>, <<>>, <<" ", "\t">>,
     <<" ", "B", "D", "?">>}

Init ==
    /\ script \in Scripts
    /\ args \in ArgsOf(script)
    /\ phase = "single"
    /\ pc = "main"
    /\ idx = 1
    /\ nRead = 0
    /\ query = <<>>
    /\ is_valid = "unset"
    /\ steps = <<>>
    /\ calls = <<>>
    /\ results = <<>>
    /\ context = <<>>
    /\ response_text = <<>>
    /\ out = <<>>
    /\ outcome = "RUNNING"
    /\ failed = {}

\* a new query: nothing of the previous one is kept
StartQuery(q) ==
    /\ query' = q
    /\ is_valid' = "unset"
    /\ steps' = <<>>
    /\ calls' = <<>>
    /\ results' = <<>>
    /\ context' = <<>>
    /\ response_text' = <<>>
    /\ out' = <<>>
    /\ outcome' = "RUNNING"
    /\ failed' = {}

\* where the caller of the pipeline continues
ReturnPc ==
    IF phase = "fixed" THEN "fixed_loop"
    ELSE IF phase = "interactive" THEN "input"
    ELSE "exited"

InQuery == pc \in {"tq_validate", "tq_retrieve", "tq_display", "tq_assemble",
                   "tq_generate", "qkb_query", "qkb_generate", "qkb_show",
                   "kbr_query", "kbr_format"}

\* a read loop that compares the line with 'exit' and 'quit' as typed
ReadLoop_case_sensitive(first) ==
    /\ pc = "input"
    /\ nRead < MaxLines
    /\ \E line \in InputLines :
          LET q == Strip(line)
          IN IF q \in {<<"e", "x", "i", "t">>, <<"q", "u", "i", "t">>}
             THEN pc' = "exited" /\ UNCHANGED qvars
             ELSE IF q = <<>>
             THEN pc' = "input" /\ UNCHANGED qvars
             ELSE pc' = first /\ StartQuery(q)
    /\ nRead' = nRead + 1
    /\ UNCHANGED <<script, args, phase, idx>>

\* one turn of a read loop: exit / quit leave, an empty line asks again, any
\* other line is the next query
ReadLoop(first) ==
    /\ pc = "input"
    /\ nRead < MaxLines
    /\ \E line \in InputLines :
          LET q == Strip(line)
          IN IF Lower(q) \in {<<"e", "x", "i", "t">>, <<"q", "u", "i", "t">>}
             THEN pc' = "exited" /\ UNCHANGED qvars
             ELSE IF q = <<>>
             THEN pc' = "input" /\ UNCHANGED qvars
             ELSE pc' = first /\ StartQuery(q)
    /\ nRead' = nRead + 1
    /\ UNCHANGED <<script, args, phase, idx>>

\* ----------------------------------- test_bedrock_utils.py: main, test_query
tbu_main ==
    /\ script = "test_bedrock_utils"
    /\ pc = "main"
    /\ pc' = "fixed_loop"
    /\ phase' = "fixed"
    /\ UNCHANGED <<script, args, idx, nRead>>
    /\ UNCHANGED qvars

tbu_fixed_loop ==
    /\ pc = "fixed_loop"
    /\ IF idx <= Len(test_queries)
       THEN /\ StartQuery(test_queries[idx])
            /\ idx' = idx + 1
            /\ pc' = "tq_validate"
            /\ UNCHANGED phase
       ELSE /\ pc' = "input"
            /\ phase' = "interactive"
            /\ UNCHANGED idx
            /\ UNCHANGED qvars
    /\ UNCHANGED <<script, args, nRead>>

tbu_input ==
    /\ script = "test_bedrock_utils"
    /\ ReadLoop("tq_validate")

\* a test_query that catches what a step raises and carries on with retrieval
tq_raise_caught(e, printed) ==
    /\ out' = printed
    /\ pc' = "tq_retrieve"
    /\ UNCHANGED outcome

\* an exception leaves test_query: the interactive loop catches and reports
\* it, the fixed loop does not catch it
tq_raise(e, printed) ==
    /\ outcome' = "ERROR"
    /\ IF phase = "interactive"
       THEN /\ out' = printed \o py_print(<<NL, "An error occurred: ">> \o e.msg)
            /\ pc' = "input"
       ELSE /\ out' = printed \o py_print(<<"Traceback (most recent call last): ">> \o e.msg)
            /\ pc' = "crashed"

tq_validate ==
    /\ pc = "tq_validate"
    /\ \E v \in ValidateOutcomes, policy \in ValidatePolicies :
          LET r == valid_prompt(v, policy)
          IN /\ steps' = Append(steps, "VALIDATE")
             /\ calls' = Append(calls, Called([api |-> "invoke_model",
                                               modelId |-> ValidationModel,
                                               purpose |-> "validate"], v))
             /\ failed' = IF v.ok THEN failed ELSE failed \cup {"VALIDATE"}
             /\ IF r.raised
                THEN /\ tq_raise(r.error, out \o r.printed)
                     /\ UNCHANGED is_valid
                ELSE /\ is_valid' = IF r.ret THEN "True" ELSE "False"
                     /\ IF tq_rejected(r.ret)
                        THEN /\ out' = out \o r.printed \o
                                       py_print(<<"This query doesn't seem to be related to heavy machinery. Please try a different query.">>)
                             /\ outcome' = "REJECTED"
                             /\ pc' = ReturnPc
                        ELSE /\ out' = out \o r.printed
                             /\ pc' = "tq_retrieve"
                             /\ UNCHANGED outcome
    /\ UNCHANGED <<script, args, phase, idx, nRead, query, results, context, response_text>>

\* a test_query that asks the retrieval service a second time when the first
\* call failed
tq_retrieve_retrying ==
    /\ pc = "tq_retrieve"
    /\ \E r \in RetrieveOutcomes :
          LET res == utils_query_knowledge_base(r)
              c   == Called([api |-> "retrieve"], r)
          IN /\ steps' = Append(steps, "RETRIEVE")
             /\ calls' = calls \o (IF r.ok THEN <<c>> ELSE <<c, c>>)
             /\ failed' = IF r.ok THEN failed ELSE failed \cup {"RETRIEVE"}
             /\ results' = res.ret
             /\ IF tq_no_results(res.ret)
                THEN /\ out' = out \o res.printed \o
                               py_print(<<"No results found in the knowledge base.">>)
                     /\ outcome' = "NO_RESULTS"
                     /\ pc' = ReturnPc
                ELSE /\ out' = out \o res.printed
                     /\ pc' = "tq_display"
                     /\ UNCHANGED outcome
    /\ UNCHANGED <<script, args, phase, idx, nRead, query, is_valid, context, response_text>>

tq_retrieve ==
    /\ pc = "tq_retrieve"
    /\ \E r \in RetrieveOutcomes :
          LET res == utils_query_knowledge_base(r)
          IN /\ steps' = Append(steps, "RETRIEVE")
             /\ calls' = Append(calls, Called([api |-> "retrieve"], r))
             /\ failed' = IF r.ok THEN failed ELSE failed \cup {"RETRIEVE"}
             /\ results' = res.ret
             /\ IF tq_no_results(res.ret)
                THEN /\ out' = out \o res.printed \o
                               py_print(<<"No results found in the knowledge base.">>)
                     /\ outcome' = "NO_RESULTS"
                     /\ pc' = ReturnPc
                ELSE /\ out' = out \o res.printed
                     /\ pc' = "tq_display"
                     /\ UNCHANGED outcome
    /\ UNCHANGED <<script, args, phase, idx, nRead, query, is_valid, context, response_text>>

\* a test_query without the display of the retrieval results
tq_show_results_skipped ==
    /\ pc = "tq_display"
    /\ pc' = "tq_assemble"
    /\ UNCHANGED <<script, args, phase, idx, nRead>>
    /\ UNCHANGED qvars

tq_show_results ==
    /\ pc = "tq_display"
    /\ steps' = Append(steps, "FORMAT")
    /\ out' = out \o tq_display(results)
    /\ pc' = "tq_assemble"
    /\ UNCHANGED <<script, args, phase, idx, nRead, query, is_valid, calls, results,
                   context, response_text, outcome, failed>>

tq_assemble ==
    /\ pc = "tq_assemble"
    /\ steps' = Append(steps, "ASSEMBLE")
    /\ context' = tq_context(results)
    /\ pc' = "tq_generate"
    /\ UNCHANGED <<script, args, phase, idx, nRead, query, is_valid, calls, results,
                   response_text, out, outcome, failed>>

tq_generate ==
    /\ pc = "tq_generate"
    /\ \E g \in UtilsGenOutcomes :
          LET r == utils_generate_response(g)
          IN /\ steps' = Append(steps, "GENERATE")
             /\ calls' = Append(calls, Called([api |-> "invoke_model",
                                               modelId |-> ValidationModel,
                                               purpose |-> "generate",
                                               prompt |-> tq_prompt(context, query)], g))
             /\ failed' = IF g.ok THEN failed ELSE failed \cup {"GENERATE"}
             /\ IF r.raised
                THEN /\ tq_raise(r.error, out \o py_print(<<NL, "=== GENERATED RESPONSE ===">>))
                     /\ UNCHANGED response_text
                ELSE /\ response_text' = r.ret
                     /\ out' = out \o py_print(<<NL, "=== GENERATED RESPONSE ===">>)
                                   \o py_print(r.ret)
                     /\ outcome' = "DONE"
                     /\ pc' = ReturnPc
    /\ UNCHANGED <<script, args, phase, idx, nRead, query, is_valid, results, context>>

\* ------------------------------------------ query_knowledge_base.py: main
\* if not args.query
no_query(a) == Get(a, "query", <<>>) = <<>>

qkb_main ==
    /\ script = "query_knowledge_base"
    /\ pc = "main"
    /\ IF no_query(args)
       THEN /\ phase' = "interactive"
            /\ pc' = "input"
            /\ UNCHANGED qvars
       ELSE /\ phase' = "single"
            /\ pc' = "qkb_query"
            /\ StartQuery(args.query)
    /\ UNCHANGED <<script, args, idx, nRead>>

qkb_input ==
    /\ script = "query_knowledge_base"
    /\ ReadLoop("qkb_query")

\* a main that generates whatever retrieval returned
qkb_has_results_always(retrieval_results) == TRUE

\* if retrieval_results:
qkb_has_results(retrieval_results) == retrieval_results # <<>>

\* a query step whose diagnostic calls are fatal: when one of them fails the
\* query ends in an error and retrieve_and_generate is not called
qkb_query_diag_fatal ==
    /\ pc = "qkb_query"
    /\ \E d \in DiagOutcomes, r \in RagOutcomes :
          LET full == qkb_query_knowledge_base(args.max_results, d, r)
              res  == IF d.b1 = "ok" /\ d.b2 = "ok" THEN full
                      ELSE [raised |-> TRUE, error |-> d.error,
                            calls |-> diag_calls(d), printed |-> diag_printed(d)]
              retrieval_results == IF res.raised THEN <<>>
                                   ELSE Get(res.ret, "retrievalResults", <<>>)
          IN /\ steps' = Append(steps, "RETRIEVE")
             /\ calls' = calls \o res.calls
             /\ failed' = IF r.ok THEN failed ELSE failed \cup {"RETRIEVE"}
             /\ IF res.raised
                THEN /\ out' = out \o res.printed \o py_print(<<"Error: ">> \o res.error.msg)
                     /\ outcome' = "ERROR"
                     /\ pc' = ReturnPc
                     /\ UNCHANGED results
                ELSE IF qkb_has_results(retrieval_results)
                THEN /\ results' = retrieval_results
                     /\ out' = out \o res.printed
                     /\ pc' = "qkb_generate"
                     /\ UNCHANGED outcome
                ELSE /\ results' = retrieval_results
                     /\ out' = out \o res.printed \o
                               py_print(<<"No results found for your query.">>)
                     /\ outcome' = "NO_RESULTS"
                     /\ pc' = ReturnPc
    /\ UNCHANGED <<script, args, phase, idx, nRead, query, is_valid, context, response_text>>

\* lines 254-263 and 285 (interactive), 296-304 and 322 (single query)
qkb_query ==
    /\ pc = "qkb_query"
    /\ \E d \in DiagOutcomes, r \in RagOutcomes :
          LET res == qkb_query_knowledge_base(args.max_results, d, r)
              retrieval_results == IF res.raised THEN <<>>
                                   ELSE Get(res.ret, "retrievalResults", <<>>)
          IN /\ steps' = Append(steps, "RETRIEVE")
             /\ calls' = calls \o res.calls
             /\ failed' = IF r.ok THEN failed ELSE failed \cup {"RETRIEVE"}
             /\ IF res.raised
                THEN /\ out' = out \o res.printed \o py_print(<<"Error: ">> \o res.error.msg)
                     /\ outcome' = "ERROR"
                     /\ pc' = ReturnPc
                     /\ UNCHANGED results
                ELSE IF qkb_has_results(retrieval_results)
                THEN /\ results' = retrieval_results
                     /\ out' = out \o res.printed
                     /\ pc' = "qkb_generate"
                     /\ UNCHANGED outcome
                ELSE /\ results' = retrieval_results
                     /\ out' = out \o res.printed \o
                               py_print(<<"No results found for your query.">>)
                     /\ outcome' = "NO_RESULTS"
                     /\ pc' = ReturnPc
    /\ UNCHANGED <<script, args, phase, idx, nRead, query, is_valid, context, response_text>>

\* lines 266-270 / 305-309; main's except clause reports what is raised
qkb_generate ==
    /\ pc = "qkb_generate"
    /\ \E g \in GenOutcomes :
          LET res == generate_response(args.model_id, query, results, g)
          IN /\ steps' = steps \o <<"ASSEMBLE", "GENERATE">>
             /\ context' = res.context
             /\ calls' = calls \o res.calls
             /\ failed' = IF g.stage # "ok" \/ res.raised THEN failed \cup {"GENERATE"}
                          ELSE failed
             /\ IF res.raised
                THEN /\ out' = out \o res.printed \o py_print(<<"Error: ">> \o res.error.msg)
                     /\ outcome' = "ERROR"
                     /\ pc' = ReturnPc
                     /\ UNCHANGED response_text
                ELSE /\ response_text' = res.ret
                     /\ out' = out \o res.printed
                     /\ pc' = "qkb_show"
                     /\ UNCHANGED outcome
    /\ UNCHANGED <<script, args, phase, idx, nRead, query, is_valid, results>>

\* lines 273-283 / 311-320
qkb_show ==
    /\ pc = "qkb_show"
    /\ steps' = Append(steps, "FORMAT")
    /\ out' = out \o py_print(<<"RESPONSE:">>) \o py_print(Strip(response_text))
                  \o py_print(<<NL>> \o <<"REFERENCES:">>)
                  \o py_print(format_references(results))
    /\ outcome' = "DONE"
    /\ pc' = ReturnPc
    /\ UNCHANGED <<script, args, phase, idx, nRead, query, is_valid, calls, results,
                   context, response_text, failed>>

\* -------------------------------- query_kb_retrieve.py: main, interactive_mode
kbr_main ==
    /\ script = "query_kb_retrieve"
    /\ pc = "main"
    /\ IF no_query(args)
       THEN /\ phase' = "interactive"
            /\ pc' = "input"
            /\ UNCHANGED qvars
       ELSE /\ phase' = "single"
            /\ pc' = "kbr_query"
            /\ StartQuery(args.query)
    /\ UNCHANGED <<script, args, idx, nRead>>

kbr_input ==
    /\ script = "query_kb_retrieve"
    /\ ReadLoop("kbr_query")

\* interactive_mode calls with the default max_results
kbr_max_results == IF phase = "single" THEN args.max_results ELSE 3

kbr_query ==
    /\ pc = "kbr_query"
    /\ \E r \in RetrieveOutcomes :
          LET res == kbr_query_knowledge_base(r)
          IN /\ steps' = Append(steps, "RETRIEVE")
             /\ calls' = Append(calls, Called([api |-> "retrieve",
                                               numberOfResults |-> kbr_max_results], r))
             /\ failed' = IF r.ok THEN failed ELSE failed \cup {"RETRIEVE"}
             /\ IF res.raised
                THEN /\ outcome' = "ERROR"
                     /\ out' = out \o res.printed \o
                               (IF phase = "interactive"
                                THEN py_print(<<NL, "An error occurred: ">> \o res.error.msg)
                                ELSE py_print(<<"Traceback (most recent call last): ">>
                                              \o res.error.msg))
                     /\ pc' = IF phase = "interactive" THEN "input" ELSE "crashed"
                     /\ UNCHANGED results
                ELSE /\ results' = res.ret
                     /\ out' = out \o res.printed
                     /\ pc' = "kbr_format"
                     /\ UNCHANGED outcome
    /\ UNCHANGED <<script, args, phase, idx, nRead, query, is_valid, context, response_text>>

kbr_format ==
    /\ pc = "kbr_format"
    /\ steps' = Append(steps, "FORMAT")
    /\ out' = out \o py_print((IF phase = "interactive" THEN <<NL>> ELSE <<>>)
                              \o format_results(results))
    /\ outcome' = IF results = <<>> THEN "NO_RESULTS" ELSE "DONE"
    /\ pc' = ReturnPc
    /\ UNCHANGED <<script, args, phase, idx, nRead, query, is_valid, calls, results,
                   context, response_text, failed>>

\* ------------------------------------------------------ KeyboardInterrupt
\* Ctrl-C while the script waits for input or answers a query: the read
\* loops leave with "Exiting...", elsewhere the interrupt ends the process
interrupt ==
    /\ pc = "input" \/ InQuery
    /\ IF phase = "interactive"
       THEN /\ pc' = "exited"
            /\ out' = out \o py_print(<<NL, "Exiting...">>)
       ELSE /\ pc' = "killed"
            /\ UNCHANGED out
    /\ outcome' = IF InQuery THEN "INTERRUPTED" ELSE outcome
    /\ UNCHANGED <<script, args, phase, idx, nRead, query, is_valid, steps, calls,
                   results, context, response_text, failed>>

Next ==
    \/ tbu_main
    \/ tbu_fixed_loop
    \/ tbu_input
    \/ tq_validate
    \/ tq_retrieve
    \/ tq_show_results
    \/ tq_assemble
    \/ tq_generate
    \/ qkb_main
    \/ qkb_input
    \/ qkb_query
    \/ qkb_generate
    \/ qkb_show
    \/ kbr_main
    \/ kbr_input
    \/ kbr_query
    \/ kbr_format
    \/ interrupt

Spec == Init /\ [][Next]_vars

\* ------------------------------------------------- the formatters alone
\* the formatting functions applied to every passage sequence
InitFmt ==
    /\ script = "formatters"
    /\ args = EmptyDict
    /\ phase = "single"
    /\ pc = "apply"
    /\ idx = 1
    /\ nRead = 0
    /\ query = CliQuery
    /\ is_valid = "unset"
    /\ steps = <<>>
    /\ calls = <<>>
    /\ results \in PassageSeqs
    /\ context = <<>>
    /\ response_text = <<>>
    /\ out = <<>>
    /\ outcome = "RUNNING"
    /\ failed = {}

Applied(fn) ==
    /\ pc = "apply"
    /\ pc' = "applied"
    /\ steps' = <<fn>>
    /\ UNCHANGED <<script, args, phase, idx, nRead, query, is_valid, calls, results,
                   response_text, outcome, failed>>

fmt_format_references ==
    /\ Applied("format_references")
    /\ out' = format_references(results)
    /\ UNCHANGED context

fmt_format_results ==
    /\ Applied("format_results")
    /\ out' = format_results(results)
    /\ UNCHANGED context

\* test_query reaches its display and its context only with results
fmt_tq_display ==
    /\ results # <<>>
    /\ Applied("tq_display")
    /\ out' = tq_display(results)
    /\ UNCHANGED context

fmt_generate_context ==
    /\ Applied("generate_context")
    /\ context' = generate_context(results)
    /\ UNCHANGED out

fmt_tq_context ==
    /\ results # <<>>
    /\ Applied("tq_context")
    /\ context' = tq_context(results)
    /\ UNCHANGED out

NextFmt ==
    \/ fmt_format_references
    \/ fmt_format_results
    \/ fmt_tq_display
    \/ fmt_generate_context
    \/ fmt_tq_context

SpecFmt == InitFmt /\ [][NextFmt]_vars

\* ------------------------------------------- generate_response alone
\* generate_response called with every model id, passage list and outcome of
\* the model call: args holds the model id and that outcome
InitGen ==
    /\ script = "generate_response"
    /\ args \in {[model_id |-> m, invoke |-> g] : m \in ModelIds, g \in GenOutcomes}
    /\ phase = "single"
    /\ pc = "apply"
    /\ idx = 1
    /\ nRead = 0
    /\ query = CliQuery
    /\ is_valid = "unset"
    /\ steps = <<>>
    /\ calls = <<>>
    /\ results \in PassageSeqs
    /\ context = <<>>
    /\ response_text = <<>>
    /\ out = <<>>
    /\ outcome = "RUNNING"
    /\ failed = {}

gen_generate_response ==
    /\ script = "generate_response"
    /\ pc = "apply"
    /\ LET res == generate_response(args.model_id, query, results, args.invoke)
       IN /\ calls' = res.calls
          /\ context' = res.context
          /\ out' = res.printed
          /\ outcome' = IF res.raised THEN "ERROR" ELSE "DONE"
          /\ response_text' = IF res.raised THEN <<>> ELSE res.ret
          /\ failed' = IF res.raised THEN {"GENERATE"} ELSE {}
    /\ steps' = <<"generate_response">>
    /\ pc' = "applied"
    /\ UNCHANGED <<script, args, phase, idx, nRead, query, is_valid, results>>

NextGen == gen_generate_response

SpecGen == InitGen /\ [][NextGen]_vars

\* ------------------------------- query_kb_retrieve.query_knowledge_base alone
\* --max-results values
MaxResultsValues == 1..3

\* the adapter called with every max_results and every outcome of the
\* retrieve call: args holds both
InitRetrieve ==
    /\ script = "kbr_query_knowledge_base"
    /\ args \in {[max_results |-> n, retrieve |-> r] :
                    n \in MaxResultsValues, r \in RetrieveOutcomes}
    /\ phase = "single"
    /\ pc = "apply"
    /\ idx = 1
    /\ nRead = 0
    /\ query = CliQuery
    /\ is_valid = "unset"
    /\ steps = <<>>
    /\ calls = <<>>
    /\ results = <<>>
    /\ context = <<>>
    /\ response_text = <<>>
    /\ out = <<>>
    /\ outcome = "RUNNING"
    /\ failed = {}

\* an adapter that cuts the service's list down to max_results
ret_query_knowledge_base_truncating ==
    /\ script = "kbr_query_knowledge_base"
    /\ pc = "apply"
    /\ LET res == kbr_query_knowledge_base(args.retrieve)
       IN /\ calls' = << Called([api |-> "retrieve",
                                 numberOfResults |-> args.max_results], args.retrieve) >>
          /\ results' = Take(res.ret, args.max_results)
          /\ out' = res.printed
          /\ failed' = IF args.retrieve.ok THEN {} ELSE {"RETRIEVE"}
    /\ steps' = <<"query_knowledge_base">>
    /\ outcome' = "DONE"
    /\ pc' = "applied"
    /\ UNCHANGED <<script, args, phase, idx, nRead, query, is_valid, context, response_text>>

\* query_knowledge_base(knowledge_base_id, query, max_results): max_results
\* goes into the request, the service's list comes back as it is
ret_query_knowledge_base ==
    /\ script = "kbr_query_knowledge_base"
    /\ pc = "apply"
    /\ LET res == kbr_query_knowledge_base(args.retrieve)
       IN /\ calls' = << Called([api |-> "retrieve",
                                 numberOfResults |-> args.max_results], args.retrieve) >>
          /\ results' = res.ret
          /\ out' = res.printed
          /\ failed' = IF args.retrieve.ok THEN {} ELSE {"RETRIEVE"}
    /\ steps' = <<"query_knowledge_base">>
    /\ outcome' = "DONE"
    /\ pc' = "applied"
    /\ UNCHANGED <<script, args, phase, idx, nRead, query, is_valid, context, response_text>>

NextRetrieve == ret_query_knowledge_base

SpecRetrieve == InitRetrieve /\ [][NextRetrieve]_vars

\* ------------------------------------------- scripts/update_kb_model.py
KNOWLEDGE_BASE_ID == <<"HBPKZNSUMS">>

NEW_MODEL_ARN ==
    <<"arn:aws:bedrock:us-east-1::foundation-model/anthropic.claude-3-5-sonnet-20250219-v1:0">>

\* the promptTemplate of lines 46-55
PromptTemplate ==
    <<NL, "Human: You are an AI assistant that answers questions based on the provided context.",
      NL, "<context>", NL, "{context}", NL, "</context>", NL,
      "Question: {question}", NL, "Assistant:", NL>>

\* time.sleep(10)
SleepSeconds == 10

\* timeout_seconds of wait_for_update_completion; main waits with the default
\* of 300 seconds, the loop is explored for waits of up to MaxPolls sleeps
TimeoutValues == {SleepSeconds * k : k \in 0..MaxPolls}

\* the seconds a get_knowledge_base call can take
CallSeconds == {0, 7}

\* d restricted to the keys K
Restrict(d, K) == [k \in K |-> d[k]]

\* d.update(e)
Update(d, e) == [k \in DOMAIN d \cup DOMAIN e |-> IF k \in DOMAIN e THEN e[k] ELSE d[k]]

\* the keys update_params reads from kb_config, in the order of lines 61-64
RequiredKeys == <<"name", "roleArn", "knowledgeBaseConfiguration", "storageConfiguration">>

\* knowledgeBaseConfiguration values: without and with a generationConfiguration
KbcValues ==
    {[type |-> <<"VECTOR">>,
      vectorKnowledgeBaseConfiguration |-> [embeddingModelArn |-> <<"arn:titan-embed">>]],
     [type |-> <<"VECTOR">>,
      generationConfiguration |-> [modelArn |-> <<"arn:claude-v2">>,
                                   temperature |-> 5]]}

\* the knowledgeBase entry get_knowledge_base answers with: every subset of
\* the keys update_params needs can be there
KbConfigs ==
    {Restrict([name |-> <<"machinery-kb">>,
               roleArn |-> <<"arn:aws:iam::role/kb">>,
               knowledgeBaseConfiguration |-> kbc,
               storageConfiguration |-> [type |-> <<"RDS">>],
               status |-> "ACTIVE"], K \cup {"status"}) :
        kbc \in KbcValues, K \in SUBSET {RequiredKeys[i] : i \in 1..Len(RequiredKeys)}}

\* the outcome of bedrock_agent.get_knowledge_base(...) before the update
GetKbOutcomes ==
    {[ok |-> TRUE, response |-> [knowledgeBase |-> c]] : c \in KbConfigs}
    \cup {[ok |-> TRUE, response |-> EmptyDict]}
    \cup {[ok |-> FALSE, error |-> e] : e \in Errors}

\* the outcome of bedrock_agent.update_knowledge_base(...)
UpdateOutcomes ==
    {[ok |-> TRUE, response |-> [knowledgeBase |-> [status |-> "UPDATING"]]],
     [ok |-> TRUE, response |-> [status |-> "UPDATING"]]}
    \cup {[ok |-> FALSE, error |-> e] : e \in Errors}

\* the status a poll can observe; "None" is a knowledgeBase without status
PollStatuses == {"ACTIVE", "UPDATING", "CREATING", "FAILED", "None"}

\* the outcome of bedrock_agent.get_knowledge_base(...) in the wait loop
PollOutcomes ==
    {[ok |-> TRUE, response |-> [knowledgeBase |-> [status |-> st]]] :
        st \in PollStatuses \ {"None"}}
    \cup {[ok |-> TRUE, response |-> [knowledgeBase |-> EmptyDict]]}
    \cup {[ok |-> FALSE, error |-> e] : e \in Errors}

\* get_knowledge_base_config, given the outcome o of the call: the except
\* clause prints and re-raises
get_knowledge_base_config(o) ==
    IF o.ok
    THEN [raised |-> FALSE, ret |-> Get(o.response, "knowledgeBase", EmptyDict),
          calls |-> << [api |-> "get_knowledge_base"] >>, printed |-> <<>>]
    ELSE [raised |-> TRUE, error |-> o.error,
          calls |-> << Called([api |-> "get_knowledge_base"], o) >>,
          printed |-> py_print(<<"Error getting knowledge base: ">> \o o.error.msg)
                      \o (IF hasattr_response(o.error)
                          THEN py_print(<<"Error details: ">> \o o.error.response)
                          ELSE <<>>)]

\* lines 35-56: the generation configuration is added or updated when the
\* configuration has a knowledgeBaseConfiguration
with_generation(kb_config, model_arn) ==
    IF "knowledgeBaseConfiguration" \in DOMAIN kb_config
    THEN LET kbc == kb_config["knowledgeBaseConfiguration"]
             gc  == Get(kbc, "generationConfiguration", EmptyDict)
         IN Update(kb_config,
                   [knowledgeBaseConfiguration |->
                       Update(kbc, [generationConfiguration |->
                                       Update(gc, [modelArn |-> model_arn,
                                                   promptTemplate |-> PromptTemplate])])])
    ELSE kb_config

\* the first key of lines 61-64 that kb_config lacks, 0 when none
missing_key(kb_config) ==
    LET lacking == {i \in 1..Len(RequiredKeys) : RequiredKeys[i] \notin DOMAIN kb_config}
    IN IF lacking = {} THEN 0
       ELSE CHOOSE i \in lacking : \A j \in lacking : i <= j

\* an update_knowledge_base_model that reads kb_config with kb_config.get and
\* sends the update whatever the configuration holds
update_knowledge_base_model_defaulting(knowledge_base_id, model_arn, o, u) ==
    LET cfg == get_knowledge_base_config(o)
        fail(e, made, printed) ==
            [raised |-> TRUE, error |-> e, calls |-> made,
             printed |-> printed
                         \o py_print(<<"Error updating knowledge base: ">> \o e.msg)]
    IN IF cfg.raised THEN fail(cfg.error, cfg.calls, cfg.printed)
       ELSE LET kb_config == with_generation(cfg.ret, model_arn)
                update_params ==
                    [knowledgeBaseId |-> knowledge_base_id,
                     name |-> Get(kb_config, "name", <<>>),
                     roleArn |-> Get(kb_config, "roleArn", <<>>),
                     knowledgeBaseConfiguration |->
                         Get(kb_config, "knowledgeBaseConfiguration", EmptyDict),
                     storageConfiguration |->
                         Get(kb_config, "storageConfiguration", EmptyDict)]
                call == [api |-> "update_knowledge_base", params |-> update_params]
            IN IF u.ok
               THEN [raised |-> FALSE, ret |-> u.response,
                     calls |-> cfg.calls \o <<call>>, printed |-> <<>>]
               ELSE fail(u.error, cfg.calls \o << Called(call, u) >>, <<>>)

\* update_knowledge_base_model, given the outcome o of the get call and the
\* outcome u of the update call: the except clause prints and re-raises
update_knowledge_base_model(knowledge_base_id, model_arn, o, u) ==
    LET cfg == get_knowledge_base_config(o)
        fail(e, made, printed) ==
            [raised |-> TRUE, error |-> e, calls |-> made,
             printed |-> printed
                         \o py_print(<<"Error updating knowledge base: ">> \o e.msg)
                         \o (IF hasattr_response(e)
                             THEN py_print(<<"Error details: ">> \o e.response)
                             ELSE <<>>)]
    IN IF cfg.raised THEN fail(cfg.error, cfg.calls, cfg.printed)
       ELSE LET kb_config == with_generation(cfg.ret, model_arn)
                k == missing_key(kb_config)
            IN IF k # 0
               THEN fail([msg |-> <<"'", RequiredKeys[k], "'">>], cfg.calls, <<>>)
               ELSE LET update_params ==
                            [knowledgeBaseId |-> knowledge_base_id,
                             name |-> kb_config["name"],
                             roleArn |-> kb_config["roleArn"],
                             knowledgeBaseConfiguration |->
                                 kb_config["knowledgeBaseConfiguration"],
                             storageConfiguration |-> kb_config["storageConfiguration"]]
                        call == [api |-> "update_knowledge_base", params |-> update_params]
                    IN IF u.ok
                       THEN [raised |-> FALSE, ret |-> u.response,
                             calls |-> cfg.calls \o <<call>>, printed |-> <<>>]
                       ELSE fail(u.error, cfg.calls \o << Called(call, u) >>, <<>>)

\* the update script started with every timeout of the wait; nRead is the
\* time since start_time, idx the polls made, steps the statuses observed,
\* is_valid what wait_for_update_completion returned, results the
\* configuration the first get_knowledge_base call answered with
InitUpdate ==
    /\ script = "update_kb_model"
    /\ args \in {[timeout_seconds |-> t] : t \in TimeoutValues}
    /\ phase = "single"
    /\ pc = "main"
    /\ idx = 0
    /\ nRead = 0
    /\ query = KNOWLEDGE_BASE_ID
    /\ is_valid = "unset"
    /\ steps = <<>>
    /\ calls = <<>>
    /\ results = <<>>
    /\ context = <<>>
    /\ response_text = <<>>
    /\ out = <<>>
    /\ outcome = "RUNNING"
    /\ failed = {}

\* main, lines 98-107 and 113-114: the update is started; what it raises is
\* reported and ends the script before the wait
upd_main ==
    /\ script = "update_kb_model"
    /\ pc = "main"
    /\ \E o \in GetKbOutcomes, u \in UpdateOutcomes :
          LET res == update_knowledge_base_model(KNOWLEDGE_BASE_ID, NEW_MODEL_ARN, o, u)
              started == py_print(<<"Updating knowledge base ">> \o KNOWLEDGE_BASE_ID
                                  \o <<" to use model ">> \o NEW_MODEL_ARN)
                         \o py_print(<<"Starting knowledge base update...">>)
          IN /\ calls' = res.calls
             /\ results' = IF o.ok THEN << Get(o.response, "knowledgeBase", EmptyDict) >>
                           ELSE <<>>
             /\ IF res.raised
                THEN /\ out' = started \o res.printed
                               \o py_print(<<"Failed to update knowledge base: ">>
                                           \o res.error.msg)
                     /\ outcome' = "ERROR"
                     /\ failed' = {"update_knowledge_base_model"}
                     /\ pc' = "exited"
                ELSE /\ out' = started
                               \o py_print(<<"Update initiated. Knowledge base status: ",
                                             Get(res.ret, "status", "None")>>)
                               \o py_print(<<"Waiting for update to complete...">>)
                     /\ pc' = "wait"
                     /\ UNCHANGED <<outcome, failed>>
    /\ UNCHANGED <<script, args, phase, idx, nRead, query, is_valid, steps,
                   context, response_text>>

\* what main prints for the value wait_for_update_completion returned
wait_report(completed) ==
    IF completed
    THEN py_print(<<"Knowledge base successfully updated!">>)
    ELSE py_print(<<"Knowledge base update may not have completed successfully. Please check the AWS Console.">>)

\* a wait that takes the end of the timeout for a completed update
upd_wait_timeout_as_success ==
    /\ script = "update_kb_model"
    /\ pc = "wait"
    /\ IF nRead < args.timeout_seconds
       THEN \E o \in PollOutcomes, d \in CallSeconds :
               LET kb == get_knowledge_base_config(o)
                   status == Get(kb.ret, "status", "None")
               IN /\ idx' = idx + 1
                  /\ calls' = calls \o kb.calls
                  /\ IF kb.raised
                     THEN /\ out' = out \o kb.printed
                                    \o py_print(<<"Failed to update knowledge base: ">>
                                                \o kb.error.msg)
                          /\ outcome' = "ERROR"
                          /\ failed' = {"wait_for_update_completion"}
                          /\ pc' = "exited"
                          /\ nRead' = nRead + d
                          /\ UNCHANGED <<steps, is_valid>>
                     ELSE /\ steps' = Append(steps, status)
                          /\ UNCHANGED failed
                          /\ IF status = "ACTIVE"
                             THEN /\ out' = out \o py_print(<<"Knowledge base update completed successfully.">>)
                                                \o wait_report(TRUE)
                                  /\ is_valid' = "True"
                                  /\ outcome' = "UPDATED"
                                  /\ pc' = "exited"
                                  /\ nRead' = nRead + d
                             ELSE IF status \in {"UPDATING", "CREATING"}
                             THEN /\ out' = out \o py_print(<<"Knowledge base status: ", status,
                                                              ". Waiting...">>)
                                  /\ nRead' = nRead + d + SleepSeconds
                                  /\ UNCHANGED <<is_valid, outcome, pc>>
                             ELSE /\ out' = out \o py_print(<<"Knowledge base update failed with status: ",
                                                              status>>)
                                                \o wait_report(FALSE)
                                  /\ is_valid' = "False"
                                  /\ outcome' = "NOT_UPDATED"
                                  /\ pc' = "exited"
                                  /\ nRead' = nRead + d
       ELSE /\ out' = out \o py_print(<<"Timeout waiting for knowledge base update to complete.">>)
                          \o wait_report(TRUE)
            /\ is_valid' = "True"
            /\ outcome' = "UPDATED"
            /\ pc' = "exited"
            /\ UNCHANGED <<idx, nRead, steps, calls, failed>>
    /\ UNCHANGED <<script, args, phase, query, results, context, response_text>>

\* wait_for_update_completion, one turn of its loop (lines 80-95), and what
\* main makes of its return value (lines 108-111) or of what it raises
upd_wait ==
    /\ script = "update_kb_model"
    /\ pc = "wait"
    /\ IF nRead < args.timeout_seconds
       THEN \E o \in PollOutcomes, d \in CallSeconds :
               LET kb == get_knowledge_base_config(o)
                   status == Get(kb.ret, "status", "None")
               IN /\ idx' = idx + 1
                  /\ calls' = calls \o kb.calls
                  /\ IF kb.raised
                     THEN /\ out' = out \o kb.printed
                                    \o py_print(<<"Failed to update knowledge base: ">>
                                                \o kb.error.msg)
                          /\ outcome' = "ERROR"
                          /\ failed' = {"wait_for_update_completion"}
                          /\ pc' = "exited"
                          /\ nRead' = nRead + d
                          /\ UNCHANGED <<steps, is_valid>>
                     ELSE /\ steps' = Append(steps, status)
                          /\ UNCHANGED failed
                          /\ IF status = "ACTIVE"
                             THEN /\ out' = out \o py_print(<<"Knowledge base update completed successfully.">>)
                                                \o wait_report(TRUE)
                                  /\ is_valid' = "True"
                                  /\ outcome' = "UPDATED"
                                  /\ pc' = "exited"
                                  /\ nRead' = nRead + d
                             ELSE IF status \in {"UPDATING", "CREATING"}
                             THEN /\ out' = out \o py_print(<<"Knowledge base status: ", status,
                                                              ". Waiting...">>)
                                  /\ nRead' = nRead + d + SleepSeconds
                                  /\ UNCHANGED <<is_valid, outcome, pc>>
                             ELSE /\ out' = out \o py_print(<<"Knowledge base update failed with status: ",
                                                              status>>)
                                                \o wait_report(FALSE)
                                  /\ is_valid' = "False"
                                  /\ outcome' = "NOT_UPDATED"
                                  /\ pc' = "exited"
                                  /\ nRead' = nRead + d
       ELSE /\ out' = out \o py_print(<<"Timeout waiting for knowledge base update to complete.">>)
                          \o wait_report(FALSE)
            /\ is_valid' = "False"
            /\ outcome' = "NOT_UPDATED"
            /\ pc' = "exited"
            /\ UNCHANGED <<idx, nRead, steps, calls, failed>>
    /\ UNCHANGED <<script, args, phase, query, results, context, response_text>>

NextUpdate ==
    \/ upd_main
    \/ upd_wait

SpecUpdate == InitUpdate /\ [][NextUpdate]_vars

\* every call of the script returns, so a step that can be taken is taken
SpecUpdateLive == SpecUpdate /\ WF_vars(NextUpdate)

\* ------------------------------------------- scripts/query_rds_data.py
\* Python values of different types are kept apart by a tag: a str, an int,
\* a bool, a float (in tenths) and None
PyStr(v) == <<"str", v>>

PyInt(v) == <<"int", v>>

PyBool(v) == <<"bool", v>>

PyFloat(v) == <<"float", v>>

None == <<"None">>

\* the fields of a record as the Data API returns them: one of each value
\* kind, a null, a kind the function does not know, and a field holding two
\* kinds
Fields ==
    {[stringValue |-> <<"a">>], [longValue |-> 7], [booleanValue |-> FALSE],
     [doubleValue |-> 15], [isNull |-> TRUE], [blobValue |-> <<"Q", "Q">>],
     [longValue |-> 0, doubleValue |-> 25]}

\* the columnMetadata of a statement: one column, two columns, and two
\* columns of the same name (SELECT COUNT(*), COUNT(*) ...)
ColumnMetadatas ==
    {<< [name |-> "id"] >>,
     << [name |-> "id"], [name |-> "count"] >>,
     << [name |-> "count"], [name |-> "count"] >>}

\* the records of a statement with n columns, one field per column
RecordsOf(n) ==
    IF n = 1 THEN {<<f>> : f \in Fields}
    ELSE {<<f, g>> : f \in Fields, g \in {[longValue |-> 7], [isNull |-> TRUE]}}

\* the responses of execute_statement: a result set, or the answer to a
\* statement that returns no rows
StatementResponses ==
    UNION {{[columnMetadata |-> cm, records |-> rs] :
               rs \in SeqsUpTo(RecordsOf(Len(cm)), MaxRecords)} :
           cm \in ColumnMetadatas}
    \cup {[numberOfRecordsUpdated |-> 1], EmptyDict}

\* the outcome of the statement call: the stage that fails, or the response
RdsOutcomes ==
    {[stage |-> "client", error |-> [msg |-> <<"NoRegionError">>]]}
    \cup {[stage |-> "execute", error |-> e] : e \in Errors}
    \cup {[stage |-> "ok", response |-> resp] : resp \in StatementResponses}

\* str(record[i]) of a field of one key
str_field(field) ==
    LET k == CHOOSE k \in DOMAIN field : TRUE
    IN <<"{'", k, "': b'">> \o field[k] \o <<"'}">>

\* lines 31-42: the value a field puts into the row
field_value(field) ==
    IF "stringValue" \in DOMAIN field THEN PyStr(field["stringValue"])
    ELSE IF "longValue" \in DOMAIN field THEN PyInt(field["longValue"])
    ELSE IF "booleanValue" \in DOMAIN field THEN PyBool(field["booleanValue"])
    ELSE IF "doubleValue" \in DOMAIN field THEN PyFloat(field["doubleValue"])
    ELSE IF "isNull" \in DOMAIN field THEN None
    ELSE PyStr(str_field(field))

\* lines 28-42: row[col] = ... for each column in turn, so that a later
\* column of the same name overwrites the earlier one
make_row(columns, record) ==
    [col \in {columns[i] : i \in 1..Len(columns)} |->
        LET last == CHOOSE i \in 1..Len(columns) :
                        /\ columns[i] = col
                        /\ \A j \in 1..Len(columns) : columns[j] = col => j <= i
        IN field_value(record[last])]

\* query_rds_data, given the outcome o of the statement call: the except
\* clause prints and re-raises
query_rds_data(o) ==
    LET call == [api |-> "execute_statement", includeResultMetadata |-> TRUE]
    IN IF o.stage # "ok"
       THEN [raised |-> TRUE, error |-> o.error,
             calls |-> IF o.stage = "client" THEN <<>> ELSE << Called(call, o) >>,
             printed |-> py_print(<<"Error executing query: ">> \o o.error.msg)
                         \o (IF hasattr_response(o.error)
                             THEN py_print(<<"Error details: ">> \o o.error.response)
                             ELSE <<>>)]
       ELSE LET response == o.response
            IN IF "records" \in DOMAIN response
               THEN LET columns == [i \in 1..Len(response["columnMetadata"]) |->
                                       response["columnMetadata"][i]["name"]]
                        rows == [k \in 1..Len(response["records"]) |->
                                    make_row(columns, response["records"][k])]
                    IN [raised |-> FALSE, ret |-> [columns |-> columns, rows |-> rows],
                        calls |-> <<call>>, printed |-> <<>>]
               ELSE [raised |-> FALSE, ret |-> response,
                     calls |-> <<call>>, printed |-> <<>>]

\* query_rds_data called with every outcome of the statement call: args
\* holds the outcome, results what the function returned
InitRds ==
    /\ script = "query_rds_data"
    /\ args \in {[execute |-> o] : o \in RdsOutcomes}
    /\ phase = "single"
    /\ pc = "apply"
    /\ idx = 1
    /\ nRead = 0
    /\ query = <<"SELECT">>
    /\ is_valid = "unset"
    /\ steps = <<>>
    /\ calls = <<>>
    /\ results = <<>>
    /\ context = <<>>
    /\ response_text = <<>>
    /\ out = <<>>
    /\ outcome = "RUNNING"
    /\ failed = {}

rds_query_rds_data ==
    /\ script = "query_rds_data"
    /\ pc = "apply"
    /\ LET res == query_rds_data(args.execute)
       IN /\ calls' = res.calls
          /\ out' = res.printed
          /\ outcome' = IF res.raised THEN "ERROR" ELSE "DONE"
          /\ results' = IF res.raised THEN <<>> ELSE res.ret
          /\ failed' = IF res.raised THEN {"execute_statement"} ELSE {}
    /\ steps' = <<"query_rds_data">>
    /\ pc' = "applied"
    /\ UNCHANGED <<script, args, phase, idx, nRead, query, is_valid, context, response_text>>

NextRds == rds_query_rds_data

SpecRds == InitRds /\ [][NextRds]_vars

\* ------------------------------------------------------------ properties
Range(f) == {f[i] : i \in DOMAIN f}

Entered(step) == step \in Range(steps)

\* the calls of this query that ask the service for the named operation
CallsOf(api) == SelectSeq(calls, LAMBDA c : c.api = api)

RetrievalCalls == Len(CallsOf("retrieve")) + Len(CallsOf("retrieve_and_generate"))

GenerationCalls ==
    Len(SelectSeq(calls, LAMBDA c : c.api = "invoke_model" /\ Get(c, "purpose", "generate") = "generate"))

\* C1: in test_query, once validation has returned false the run is REJECTED
\* and no retrieval call and no generation call has been made for the query.
C1_InvalidIsRejected ==
    (script = "test_bedrock_utils" /\ is_valid = "False")
        => /\ outcome = "REJECTED"
           /\ steps = <<"VALIDATE">>
           /\ RetrievalCalls = 0
           /\ GenerationCalls = 0
           /\ ~InQuery

C1_Witness ==
    /\ script = "test_bedrock_utils"
    /\ is_valid = "False"
    /\ failed = {}
    /\ outcome = "REJECTED"
    /\ Len(calls) = 1

\* C2: in test_query and on both paths of query_knowledge_base.py main, once
\* retrieval has handed back zero passages the query is NO_RESULTS and the
\* generation model has not been invoked for it.
C2_EmptyIsNoResults ==
    (script \in {"test_bedrock_utils", "query_knowledge_base"}
     /\ Entered("RETRIEVE") /\ results = <<>>)
        => /\ outcome = "NO_RESULTS"
           /\ ~Entered("ASSEMBLE")
           /\ ~Entered("GENERATE")
           /\ GenerationCalls = 0
           /\ ~InQuery

C2_Witness ==
    /\ script = "query_knowledge_base"
    /\ phase = "interactive"
    /\ Entered("RETRIEVE")
    /\ failed = {}
    /\ results = <<>>
    /\ outcome = "NO_RESULTS"

\* C3 as stated: every run that reaches DONE went through VALIDATE, RETRIEVE,
\* ASSEMBLE, GENERATE, FORMAT, once each and in this order.
C3_Original ==
    (script \in {"test_bedrock_utils", "query_knowledge_base"} /\ outcome = "DONE")
        => steps = <<"VALIDATE", "RETRIEVE", "ASSEMBLE", "GENERATE", "FORMAT">>

\* C3 amended: a test_query run that reaches DONE went through VALIDATE,
\* RETRIEVE, FORMAT (the display of the passages), ASSEMBLE, GENERATE, once
\* each and in this order; a run of query_knowledge_base.py main that reaches
\* DONE went through RETRIEVE, ASSEMBLE, GENERATE, FORMAT, once each and in
\* this order, with no VALIDATE step.
C3_StepOrder ==
    outcome = "DONE" =>
        /\ script = "test_bedrock_utils"
              => steps = <<"VALIDATE", "RETRIEVE", "FORMAT", "ASSEMBLE", "GENERATE">>
        /\ script = "query_knowledge_base"
              => steps = <<"RETRIEVE", "ASSEMBLE", "GENERATE", "FORMAT">>

C3_Witness ==
    /\ script = "test_bedrock_utils"
    /\ outcome = "DONE"
    /\ Len(results) = MaxPassages

\* the tail of a text
EndsWith(s, t) == Len(s) >= Len(t) /\ SubSeq(s, Len(s) - Len(t) + 1, Len(s)) = t

StartsWith(s, t) == Len(s) >= Len(t) /\ SubSeq(s, 1, Len(t)) = t

\* C4: when the retrieve call fails, query_knowledge_base of
\* query_kb_retrieve.py raises nothing and returns the empty sequence, having
\* printed the error message, and the service's error details when the error
\* carries them; its caller goes on to the "No results found." outcome.
C4_RetrieveFailureIsEmpty ==
    (script = "query_kb_retrieve" /\ "RETRIEVE" \in failed) =>
        LET e      == calls[1].error
            report == <<"Error querying knowledge base: ">> \o e.msg \o <<NL>> \o
                      (IF "response" \in DOMAIN e
                       THEN <<"Error details: ">> \o e.response \o <<NL>>
                       ELSE <<>>)
        IN /\ results = <<>>
           /\ outcome \in {"RUNNING", "NO_RESULTS", "INTERRUPTED"}
           /\ pc # "crashed"
           /\ StartsWith(out, report)
           /\ outcome = "RUNNING" => (pc = "kbr_format" /\ out = report)
           /\ outcome = "NO_RESULTS" =>
                 StartsWith(out, report \o (IF phase = "interactive" THEN <<NL>> ELSE <<>>)
                                        \o <<"No results found.", NL>>)

C4_Witness ==
    /\ script = "query_kb_retrieve"
    /\ "RETRIEVE" \in failed
    /\ "response" \in DOMAIN calls[1].error
    /\ outcome = "NO_RESULTS"

\* C5 as stated: a failed external call of the RETRIEVE or GENERATE step never
\* ends the query in NO_RESULTS or REJECTED, the outcomes of a run without
\* failure.
C5_Original ==
    (script \in {"query_knowledge_base", "query_kb_retrieve"} /\ failed # {})
        => outcome \notin {"NO_RESULTS", "REJECTED"}

\* C5 amended: a failed external call of the GENERATE step ends the query in
\* the error outcome, which differs from NO_RESULTS and REJECTED; a failed
\* external call of the RETRIEVE step is reported on standard output only: the
\* caller receives the empty result, the value it receives after a successful
\* retrieval of zero passages, and the query ends as NO_RESULTS.
C5_FailureOutcomes ==
    script \in {"query_knowledge_base", "query_kb_retrieve"} =>
        /\ "GENERATE" \in failed =>
              /\ outcome = "ERROR"
              /\ "Error: " \in Range(out)
        /\ "RETRIEVE" \in failed =>
              /\ results = <<>>
              /\ ~Entered("GENERATE")
              /\ Range(out) \cap {"Error querying knowledge base: ", "Error Message: "} # {}
              /\ outcome \in {"NO_RESULTS", "RUNNING", "INTERRUPTED"}
              /\ outcome = "RUNNING" => pc = "kbr_format"
              /\ script = "query_knowledge_base" => outcome = "NO_RESULTS"

C5_Witness ==
    /\ script = "query_knowledge_base"
    /\ failed = {"RETRIEVE"}
    /\ outcome = "NO_RESULTS"
    /\ EndsWith(out, <<"No results found for your query.", NL>>)

\* C6: generate_response of query_knowledge_base.py hands every failure of
\* client construction, of invoke_model and of the parsing of the response to
\* its caller: no answer is returned, the model is invoked at most once for
\* the query, and neither an answer nor a reference list is displayed.
C6_GenerationFailurePropagates ==
    script = "query_knowledge_base" =>
        /\ Len(CallsOf("invoke_model")) <= 1
        /\ "GENERATE" \in failed =>
              /\ outcome = "ERROR"
              /\ response_text = <<>>
              /\ ~Entered("FORMAT")
              /\ Range(out) \cap {"RESPONSE:", "REFERENCES:", "--- Reference "} = {}
              /\ "Error generating response: " \in Range(out)
              /\ ~InQuery

C6_Witness ==
    /\ script = "query_knowledge_base"
    /\ "GENERATE" \in failed
    /\ Len(CallsOf("invoke_model")) = 1
    /\ "error" \in DOMAIN calls[Len(calls)]
    /\ outcome = "ERROR"

\* C7: when the validation call fails, test_query never treats the query as
\* valid: the run is REJECTED or ends with the error, and no retrieval call and
\* no generation call is made, in the fixed loop and in the interactive loop.
C7_ValidationFailureClosed ==
    (script = "test_bedrock_utils" /\ "VALIDATE" \in failed) =>
        /\ is_valid # "True"
        /\ steps = <<"VALIDATE">>
        /\ RetrievalCalls = 0
        /\ GenerationCalls = 0
        /\ outcome \in {"REJECTED", "ERROR"}
        /\ ~InQuery

C7_Witness ==
    /\ script = "test_bedrock_utils"
    /\ phase = "interactive"
    /\ "VALIDATE" \in failed
    /\ is_valid = "unset"
    /\ outcome = "ERROR"
    /\ pc = "input"

\* the line breaks of a text, in ascending order
RECURSIVE Ascending(_)
Ascending(S) ==
    IF S = {} THEN <<>>
    ELSE LET m == CHOOSE x \in S : \A y \in S : x <= y
         IN <<m>> \o Ascending(S \ {m})

\* the lines of a text
Lines(s) ==
    LET b == Ascending({i \in 1..Len(s) : s[i] = NL})
        n == Len(b)
    IN [k \in 1..(n + 1) |->
           SubSeq(s, IF k = 1 THEN 1 ELSE b[k - 1] + 1,
                     IF k = n + 1 THEN Len(s) ELSE b[k] - 1)]

\* the lines that start with a label
LinesOf(s, label) == SelectSeq(Lines(s), LAMBDA l : l # <<>> /\ l[1] = label)

TextOf(p) == p.content.text

\* the preview the specification asks for
ExpectedPreview(content) ==
    IF Len(content) > PreviewBudget
    THEN [i \in 1..(PreviewBudget + 3) |-> IF i <= PreviewBudget THEN content[i] ELSE "."]
    ELSE content

AppliedFn(fns) == pc = "applied" /\ steps[1] \in fns

\* C8: the content preview of format_references, of format_results and of
\* the result display of test_query is the first 200 characters and '...'
\* for a content longer than 200 characters, and the content itself, with no
\* marker, for a content of at most 200 characters.
C8_PreviewRule ==
    AppliedFn({"format_references", "format_results", "tq_display"}) =>
        LET shown == LinesOf(out, "Content: ")
        IN /\ Len(shown) = Len(results)
           /\ \A i \in 1..Len(results) :
                 shown[i] = <<"Content: ">> \o ExpectedPreview(TextOf(results[i]))

HasSource(p) == "metadata" \in DOMAIN p /\ "source" \in DOMAIN p.metadata

HasPage(p) == "metadata" \in DOMAIN p /\ "page_number" \in DOMAIN p.metadata

HasUri(p) ==
    /\ "location" \in DOMAIN p
    /\ "s3Location" \in DOMAIN p.location
    /\ "uri" \in DOMAIN p.location.s3Location

\* format_references: one entry per passage, numbered from 1 in input order,
\* with the source or 'Unknown' and the page number or 'N/A'; the sentinel alone
\* for the empty sequence
ReferencesEntries ==
    AppliedFn({"format_references"}) =>
        IF results = <<>> THEN out = <<"No references found.">>
        ELSE LET n == Len(results)
                 heads == LinesOf(out, "--- Reference ")
                 srcs  == LinesOf(out, "Source: ")
                 pages == LinesOf(out, "Page: ")
             IN /\ Len(Lines(out)) = 5 * n
                /\ Len(heads) = n /\ Len(srcs) = n /\ Len(pages) = n
                /\ \A i \in 1..n :
                      /\ heads[i] = <<"--- Reference ">> \o Str(i) \o <<" ---">>
                      /\ Lines(out)[5 * i - 3] = heads[i]
                      /\ Lines(out)[5 * i - 2] = srcs[i]
                      /\ Lines(out)[5 * i - 1] = pages[i]
                      /\ StartsWith(Lines(out)[5 * i], <<"Content: ">>)
                      /\ srcs[i] = <<"Source: ">> \o (IF HasSource(results[i])
                                                     THEN results[i].metadata.source
                                                     ELSE <<"Unknown">>)
                      /\ pages[i] = <<"Page: ">> \o (IF HasPage(results[i])
                                                    THEN results[i].metadata.page_number
                                                    ELSE <<"N/A">>)

\* format_results: one entry per passage, numbered from 1 in input order, with
\* the source or 'Unknown source'; the sentinel alone for the empty sequence
ResultsEntries ==
    AppliedFn({"format_results"}) =>
        IF results = <<>> THEN out = <<"No results found.">>
        ELSE LET n == Len(results)
                 heads == LinesOf(out, "Result ")
                 srcs  == LinesOf(out, "Source: ")
             IN /\ Len(Lines(out)) = 1 + 4 * n
                /\ Len(heads) = n /\ Len(srcs) = n
                /\ \A i \in 1..n :
                      /\ StartsWith(heads[i], <<"Result ">> \o Str(i) \o <<" (Relevance: ">>)
                      /\ Lines(out)[4 * i - 1] = heads[i]
                      /\ Lines(out)[4 * i] = srcs[i]
                      /\ StartsWith(Lines(out)[4 * i + 1], <<"Content: ">>)
                      /\ srcs[i] = <<"Source: ">> \o (IF HasUri(results[i])
                                                     THEN results[i].location.s3Location.uri
                                                     ELSE <<"Unknown source">>)

\* every passage without a page number has an entry that shows the page 'N/A'
PagesShown ==
    LET pages == LinesOf(out, "Page: ")
    IN /\ Len(pages) = Len(results)
       /\ \A i \in 1..Len(results) :
             ~HasPage(results[i]) => pages[i] = <<"Page: ", "N/A">>

\* C9 as stated: format_references and format_results emit one entry per
\* passage, numbered 1..n in input order, with a missing source replaced by a
\* sentinel and a missing page number shown as 'N/A', and the sentinel alone
\* for the empty sequence.
C9_Original ==
    /\ ReferencesEntries
    /\ ResultsEntries
    /\ (AppliedFn({"format_references", "format_results"}) /\ results # <<>>) => PagesShown

\* C9 amended: as stated, except that only format_references shows a page
\* number ('N/A' when missing); an entry of format_results holds the index, the
\* relevance, the source and the preview, and no page number.
C9_OneEntryPerPassage ==
    /\ ReferencesEntries
    /\ ResultsEntries
    /\ (AppliedFn({"format_references"}) /\ results # <<>>) => PagesShown
    /\ AppliedFn({"format_results"}) => LinesOf(out, "Page: ") = <<>>

C9_Witness ==
    /\ AppliedFn({"format_references"})
    /\ Len(results) >= 2
    /\ ~HasSource(results[1])
    /\ ~HasPage(results[2])
    /\ Len(LinesOf(out, "--- Reference ")) = Len(results)

\* the place of the i-th passage in a context whose entries carry a label of
\* the given lengths and are separated by two line breaks
RECURSIVE EntryStart(_, _, _)
EntryStart(rs, LabelLen(_), i) ==
    IF i = 1 THEN 1
    ELSE EntryStart(rs, LabelLen, i - 1) + LabelLen(i - 1) + Len(TextOf(rs[i - 1])) + 2

\* ctx holds, for each passage in input order, its label and its whole text,
\* with a double line break between consecutive passages and nothing else
ContextHolds(ctx, rs, Label(_)) ==
    LET n == Len(rs)
        LabelLen(i) == Len(Label(i))
        from(i) == EntryStart(rs, LabelLen, i)
        text(i) == from(i) + LabelLen(i)
        last(i) == text(i) + Len(TextOf(rs[i])) - 1
    IN /\ Len(ctx) = IF n = 0 THEN 0 ELSE last(n)
       /\ \A i \in 1..n :
             /\ SubSeq(ctx, from(i), text(i) - 1) = Label(i)
             /\ SubSeq(ctx, text(i), last(i)) = TextOf(rs[i])
             /\ i < n => SubSeq(ctx, last(i) + 1, last(i) + 2) = <<NL, NL>>

SourceLabel(i) == <<"Source ">> \o Str(i) \o <<":", NL>>

NoLabel(i) == <<>>

\* C10 as stated: every context assembled for generation, by generate_response
\* and by test_query, holds each passage's whole text in input order, labelled
\* 'Source i' from 1, with a double line break between passages.
C10_Original ==
    AppliedFn({"generate_context", "tq_context"}) => ContextHolds(context, results, SourceLabel)

\* C10 amended: the context of generate_response holds each passage's whole
\* text in input order, labelled 'Source i' from 1, with a double line break
\* between passages; the context of test_query holds the whole texts in input
\* order with a double line break between passages, and no label.
C10_ContextOrder ==
    /\ AppliedFn({"generate_context"}) => ContextHolds(context, results, SourceLabel)
    /\ AppliedFn({"tq_context"}) => ContextHolds(context, results, NoLabel)

C10_Witness ==
    /\ AppliedFn({"generate_context"})
    /\ Len(results) >= 2
    /\ Len(TextOf(results[1])) > PreviewBudget
    /\ TextOf(results[1]) # TextOf(results[2])
    /\ Len(context) > 2 * PreviewBudget

\* ------------------------------------------------------------------- C11
\* the field names of the request body built for a model id
RequestShape(model_id) == DOMAIN request_body(model_id, <<>>)

\* C11: generate_response shapes the request body by the family of the
\* model id: an id containing 'claude' gets the claude fields, an id
\* containing 'titan' gets a request shape of its own, different from the
\* shape of every id that is not titan, and the family that built the
\* request is the family that parses the response.
C11_RequestAndParseFamily ==
    (script = "generate_response" /\ pc = "applied" /\ calls # <<>>) =>
        LET id   == calls[1].modelId
            body == calls[1].body
        IN /\ Contains(Lower(id), claude) =>
                 /\ "max_tokens_to_sample" \in DOMAIN body
                 /\ StartsWith(body.prompt, <<NL, NL, "Human: ">>)
           /\ (Contains(Lower(id), titan) /\ ~Contains(Lower(id), claude)) =>
                 \A m \in ModelIds :
                    ~Contains(Lower(m), titan) => RequestShape(m) # DOMAIN body
           /\ request_family(id) = parse_family(id)

\* ------------------------------------------------------------------- C12
\* the generated text is absent at the path the family of the id reads
TextAbsent(model_id, b) ==
    IF Contains(Lower(model_id), claude) THEN "completion" \notin DOMAIN b
    ELSE IF Contains(Lower(model_id), titan)
    THEN \/ "results" \notin DOMAIN b
         \/ b.results = <<>>
         \/ "outputText" \notin DOMAIN b.results[1]
    ELSE FALSE

\* C12: when the model call succeeds and the generated text is absent at the
\* family's response path, generate_response returns 'No response generated'
\* and does not raise.
C12_AbsentTextIsSentinel ==
    (/\ script = "generate_response"
     /\ pc = "applied"
     /\ args.invoke.stage = "ok"
     /\ TextAbsent(args.model_id, args.invoke.body)) =>
        (outcome = "DONE" /\ response_text = Sentinel)

\* ------------------------------------------------------------------- C13
\* the list the service answered the retrieve call with
ServiceList == Get(args.retrieve.response, "retrievalResults", <<>>)

\* s is t with some entries left out, the others in their order
IsSelection(s, t) ==
    \E f \in [1..Len(s) -> 1..Len(t)] :
        /\ \A i \in 1..Len(s) : s[i] = t[f[i]]
        /\ \A i, j \in 1..Len(s) : i < j => f[i] < f[j]

AdapterReturned ==
    script = "kbr_query_knowledge_base" /\ pc = "applied" /\ args.retrieve.ok

CallKind(c) ==
    IF c.api \in {"retrieve", "retrieve_and_generate"} THEN "retrieval"
    ELSE IF c.api = "invoke_model"
    THEN (IF Get(c, "purpose", "generate") = "validate" THEN "validation" ELSE "generation")
    ELSE "diagnostic"

KindRank(k) ==
    CASE k = "validation" -> 1 [] k = "diagnostic" -> 2
      [] k = "retrieval" -> 3 [] OTHER -> 4

CallsOfKind(k) == SelectSeq(calls, LAMBDA c : CallKind(c) = k)

\* the calls of the query come in the order validation, diagnostic,
\* retrieval, generation
CallsInOrder ==
    \A i, j \in DOMAIN calls :
        i < j => KindRank(CallKind(calls[i])) <= KindRank(CallKind(calls[j]))

PipelineScript ==
    script \in {"test_bedrock_utils", "query_knowledge_base", "query_kb_retrieve"}

InProgress == {"UPDATING", "CREATING"}

\* the status the last poll observed
LastStatus == steps[Len(steps)]

\* wait_for_update_completion returned without raising
WaitReturned == pc = "exited" /\ is_valid # "unset"

\* what every state of the wait satisfies: the return value and the place
\* in the loop against the statuses observed and the time elapsed
C15_WaitSafety ==
    script = "update_kb_model" =>
        /\ is_valid = "True" => (steps # <<>> /\ LastStatus = "ACTIVE")
        /\ \A i \in 1..(Len(steps) - 1) : steps[i] \in InProgress
        /\ (pc = "wait" /\ steps # <<>>) => LastStatus \in InProgress
        /\ (steps # <<>> /\ LastStatus \notin InProgress \cup {"ACTIVE"}) =>
              (WaitReturned /\ is_valid = "False")
        /\ (WaitReturned /\ (steps = <<>> \/ LastStatus \in InProgress)) =>
              (is_valid = "False" /\ nRead >= args.timeout_seconds)
        /\ (pc = "wait" /\ nRead >= args.timeout_seconds) =>
              (steps = <<>> \/ LastStatus \in InProgress)

\* C15: wait_for_update_completion returns True only when a poll observed
\* ACTIVE, polls again only after UPDATING or CREATING, returns False as soon
\* as another status is observed, returns False once the timeout has elapsed
\* without ACTIVE, and, every status call returning, always comes to an end.
C15_WaitTerminates ==
    /\ []C15_WaitSafety
    /\ [][(pc = "wait" /\ nRead >= args.timeout_seconds) =>
            (pc' = "exited" /\ is_valid' = "False" /\ idx' = idx)]_vars
    /\ <>(pc = "exited")

\* the wait gave up at the timeout after more than one poll
C15_Witness ==
    /\ script = "update_kb_model"
    /\ WaitReturned
    /\ is_valid = "False"
    /\ Len(steps) >= 2
    /\ LastStatus \in InProgress
    /\ nRead >= args.timeout_seconds

\* ------------------------------------------------------------------- C16
\* the first get_knowledge_base call failed, or answered with a
\* configuration that lacks a key update_params needs
MalformedConfig ==
    \/ results = <<>>
    \/ \E k \in {RequiredKeys[i] : i \in 1..Len(RequiredKeys)} : k \notin DOMAIN results[1]

\* C16: when fetching the configuration fails or the configuration lacks
\* name, roleArn, knowledgeBaseConfiguration or storageConfiguration,
\* update_knowledge_base_model raises, update_knowledge_base is never called
\* and main does not start to poll.
C16_MalformedConfigAborts ==
    (script = "update_kb_model" /\ pc # "main" /\ MalformedConfig) =>
        /\ outcome = "ERROR"
        /\ failed = {"update_knowledge_base_model"}
        /\ CallsOf("update_knowledge_base") = <<>>
        /\ Len(calls) = 1
        /\ pc = "exited"
        /\ idx = 0
        /\ is_valid = "unset"

\* the configuration was fetched and lacks storageConfiguration only
C16_Witness ==
    /\ script = "update_kb_model"
    /\ pc = "exited"
    /\ results # <<>>
    /\ {"name", "roleArn", "knowledgeBaseConfiguration"} \subseteq DOMAIN results[1]
    /\ "storageConfiguration" \notin DOMAIN results[1]
    /\ outcome = "ERROR"

\* ------------------------------------------------------------------- C17
ExitWords == {<<"e", "x", "i", "t">>, <<"q", "u", "i", "t">>}

\* a step of a read loop that waits for a line: the loop is left with no
\* call made, or the loop asks again with nothing changed, or a query starts
\* and its line is, stripped, neither empty nor 'exit' nor 'quit'
ReadStep ==
    (phase = "interactive" /\ pc = "input") =>
        \/ pc' = "exited" /\ calls' = calls /\ steps' = steps
        \/ pc' = "input" /\ UNCHANGED qvars
        \/ /\ pc' \in {"tq_validate", "qkb_query", "kbr_query"}
           /\ query' # <<>>
           /\ Strip(query') = query'
           /\ Lower(query') \notin ExitWords
           /\ calls' = <<>>

\* a query of a read loop that ends in an error is reported and the loop
\* waits for the next line
ErrorStep ==
    (phase = "interactive" /\ InQuery /\ outcome' = "ERROR") =>
        /\ pc' = "input"
        /\ Range(out') \cap {"An error occurred: ", "Error: "} # {}

\* a keyboard interrupt that stops a query of a read loop ends the loop
InterruptStep ==
    (phase = "interactive" /\ InQuery /\ outcome' = "INTERRUPTED") =>
        /\ pc' = "exited"
        /\ calls' = calls

AfterQuery ==
    script = "query_knowledge_base" /\ Entered("RETRIEVE") /\ ~Entered("GENERATE")

\* C18: in query_knowledge_base of query_knowledge_base.py, whichever
\* diagnostic calls fail, retrieve_and_generate is attempted exactly once for
\* the query, after the diagnostic calls, and nothing is raised to the caller.
C18_DiagnosticsNonBlocking ==
    AfterQuery =>
        /\ Len(CallsOf("retrieve_and_generate")) = 1
        /\ calls[Len(calls)].api = "retrieve_and_generate"
        /\ outcome \in {"RUNNING", "NO_RESULTS", "INTERRUPTED"}
        /\ Range(out) \cap {"Error: ", "Traceback (most recent call last): "} = {}

\* the admin client could not be created, so that every diagnostic step
\* failed, and the passages of retrieve_and_generate reached the caller
C18_Witness ==
    /\ AfterQuery
    /\ Len(calls) = 1
    /\ "error" \notin DOMAIN calls[1]
    /\ {"Warning: Could not list knowledge bases: ",
        "Warning: Could not get knowledge base details: "} \subseteq Range(out)
    /\ results # <<>>

\* ------------------------------------------------------------------- C19
\* the value the claim gives a field: the first present of stringValue,
\* longValue, booleanValue, doubleValue; None for a null; else the string form
ClaimedValue(field) ==
    LET present == {i \in 1..4 :
                       <<"stringValue", "longValue", "booleanValue", "doubleValue">>[i]
                           \in DOMAIN field}
        first == CHOOSE i \in present : \A j \in present : i <= j
    IN IF present # {}
       THEN <<(<<"str", "int", "bool", "float">>[first]),
              field[(<<"stringValue", "longValue", "booleanValue", "doubleValue">>[first])]>>
       ELSE IF "isNull" \in DOMAIN field /\ field["isNull"] THEN None
       ELSE PyStr(str_field(field))

RdsApplied == script = "query_rds_data" /\ pc = "applied"

\* C19: query_rds_data returns, for a response with records, one row per
\* record in record order, each row with exactly one entry per column of the
\* column metadata, holding the value of the record's field for that column;
\* it returns a response without records unchanged; and it re-raises any
\* failure of the statement call.
C19_RowsPerRecord ==
    RdsApplied =>
        LET o == args.execute
        IN /\ o.stage # "ok" => (outcome = "ERROR" /\ results = <<>>)
           /\ (o.stage = "ok" /\ "records" \notin DOMAIN o.response) =>
                 (outcome = "DONE" /\ results = o.response)
           /\ (o.stage = "ok" /\ "records" \in DOMAIN o.response) =>
                 LET recs == o.response["records"]
                     cols == o.response["columnMetadata"]
                 IN /\ outcome = "DONE"
                    /\ Len(results.rows) = Len(recs)
                    /\ \A k \in 1..Len(recs) :
                          /\ Cardinality(DOMAIN results.rows[k]) = Len(cols)
                          /\ \A i \in 1..Len(cols) :
                                results.rows[k][cols[i]["name"]] = ClaimedValue(recs[k][i])

====
